---- MODULE Spec2Model ----
(***************************************************************************)
(* Model of the ESP32 countdown firmware (src/code/src/main.cpp): the      *)
(* polling loop, its three interval timers, the hours computation and the  *)
(* display formatting.                                                     *)
(*                                                                         *)
(* Time.  millis() is a 32-bit counter of milliseconds.  The model counts  *)
(* it in ticks of MsPerTick = 4 ms, so that the counter's modulus 2^32 ms  *)
(* is 2^30 ticks and every interval of the program (200, 500, 1000, 15000, *)
(* 20000, 60000 and 21600000 ms) is a whole number of ticks.               *)
(* time(nullptr) is the variable clock, in seconds since the epoch.        *)
(***************************************************************************)
EXTENDS Integers, Sequences, FiniteSets

VARIABLES
    millis,             \* millis() at the start of the next loop iteration (ticks)
    clock,              \* time(nullptr) at the start of the next loop iteration (s)
    wifi,               \* WiFi.status() == WL_CONNECTED, as last observed
    syncRequested,      \* configTime() has been called (SNTP is running)
    tzInstalled,        \* setenv("TZ", ...) / tzset() have been executed
    lastPrint,          \* main.cpp:21
    lastReportedHours,  \* main.cpp:22
    lastNtpSync,        \* main.cpp:23
    lastModeSwitch,     \* main.cpp:24
    displayMode,        \* main.cpp:27
    displayInitialized, \* main.cpp:33
    shown,              \* what the TM1637 display shows
    shownFor,           \* the updateDisplay call that produced it
    out,                \* the Serial lines written by the last step
    calls,              \* the computeHoursRemaining calls of the last step
    waitRun,            \* "waiting" lines logged in the current run of iterations
                        \* that read an unsynchronized clock (counted to MaxWaitRun)
    it,                 \* the last step, block by block: its inputs and the
                        \* globals after each block of loop()
    real                \* the time since boot without the 32-bit wrap, in ticks:
                        \* now, at line 163 of the last iteration, and when
                        \* lastPrint, lastModeSwitch and lastNtpSync were written

vars == <<millis, clock, wifi, syncRequested, tzInstalled, lastPrint,
          lastReportedHours, lastNtpSync, lastModeSwitch, displayMode,
          displayInitialized, shown, shownFor, out, calls, waitRun, it, real>>

-----------------------------------------------------------------------------
(* Program constants *)

MsPerTick == 4
Ticks(ms) == ms \div MsPerTick

MillisModulus == 2^30                       \* 2^32 ms, in ticks
PRINT_INTERVAL_MS == 60 * 1000
NTP_RESYNC_INTERVAL_MS == 6 * 60 * 60 * 1000
DISPLAY_MODE_DURATION_MS == 15000
NTP_RETRY_MS == 15000
WIFI_TIMEOUT_MS == 20000
WIFI_POLL_MS == 500
BOOT_DELAY_MS == 200
LOOP_DELAY_MS == 1000
SYNC_THRESHOLD == 100000
SECONDS_PER_HOUR == 3600
HOURS_PER_DAY == 24
DISPLAY_MAX == 9999

MODE_HOURS == 0
MODE_DAYS == 1

TARGET == [year |-> 2026, month |-> 4, day |-> 12, hour |-> 6, minute |-> 0, second |-> 0]

-----------------------------------------------------------------------------
(* Bounds of the model *)

MaxUptimeSec == 66        \* the loop is explored up to this uptime
MaxHoursAhead == 3        \* SpecPure: readings at every hour up to this one before the target
MaxWaitRun == 2           \* waitRun counts up to this number
LiveHorizonSec == 20      \* SpecLive: the environment may fail up to this uptime
LiveGraceSec == 60        \* SpecLive: the loop is explored this much longer

-----------------------------------------------------------------------------
(* mktime(): calendar fields to epoch seconds, as local time per TZ.       *)

IsLeap(y) == (y % 4 = 0 /\ y % 100 # 0) \/ y % 400 = 0

DaysInMonth(y, m) ==
    IF m = 2 THEN (IF IsLeap(y) THEN 29 ELSE 28)
    ELSE IF m \in {4, 6, 9, 11} THEN 30 ELSE 31

RECURSIVE DaysBeforeYear(_)
DaysBeforeYear(y) == IF y <= 1970 THEN 0
                     ELSE DaysBeforeYear(y - 1) + (IF IsLeap(y - 1) THEN 366 ELSE 365)

RECURSIVE DaysBeforeMonth(_, _)
DaysBeforeMonth(y, m) == IF m <= 1 THEN 0
                         ELSE DaysBeforeMonth(y, m - 1) + DaysInMonth(y, m - 1)

\* days since 1970-01-01 of the calendar date y-m-d
DaysFromCivil(y, m, d) == DaysBeforeYear(y) + DaysBeforeMonth(y, m) + (d - 1)

\* 0 = Sunday; 1970-01-01 was a Thursday
Weekday(days) == (days + 4) % 7

\* day of the month of the last Sunday of month m (the rule "Mm.5.0")
LastSunday(y, m) ==
    LET last == DaysInMonth(y, m)
    IN  last - Weekday(DaysFromCivil(y, m, last))

\* seconds since 1970-01-01 00:00 of the fields read as a plain calendar time
CivilSeconds(t) ==
    DaysFromCivil(t.year, t.month, t.day) * 86400
        + t.hour * 3600 + t.minute * 60 + t.second

\* CET-1CEST,M3.5.0/2,M10.5.0/3: is the local time t in daylight-saving time
IsDst(t) ==
    LET s     == CivilSeconds(t)
        start == DaysFromCivil(t.year, 3, LastSunday(t.year, 3)) * 86400 + 2 * 3600
        end   == DaysFromCivil(t.year, 10, LastSunday(t.year, 10)) * 86400 + 3 * 3600
    IN  s >= start /\ s < end

\* offset of local time from UTC: CET = UTC+1, CEST = UTC+2; UTC when no
\* time zone has been installed
UtcOffset(t, tz) == IF ~tz THEN 0 ELSE IF IsDst(t) THEN 7200 ELSE 3600

mktime(t, tz) == CivilSeconds(t) - UtcOffset(t, tz)

\* main.cpp:72-81: mktime(&target), for TZ installed or not
TargetTime == [tz \in BOOLEAN |-> mktime(TARGET, tz)]

-----------------------------------------------------------------------------
(* Countdown calculator *)

computeHoursRemaining_NoPastCheck(now, tz) ==
    IF now < SYNC_THRESHOLD THEN -1
    ELSE (TargetTime[tz] - now) \div SECONDS_PER_HOUR

computeHoursRemaining_RoundUp(now, tz) ==
    IF now < SYNC_THRESHOLD THEN -1
    ELSE LET targetTime == TargetTime[tz]
         IN  IF targetTime <= now THEN 0
             ELSE (targetTime - now + SECONDS_PER_HOUR - 1) \div SECONDS_PER_HOUR

computeHoursRemaining_ThresholdInclusive(now, tz) ==
    IF now <= SYNC_THRESHOLD THEN -1
    ELSE LET targetTime == TargetTime[tz]
         IN  IF targetTime <= now THEN 0
             ELSE (targetTime - now) \div SECONDS_PER_HOUR

computeHoursRemaining_Abs(now, tz) ==
    IF now < SYNC_THRESHOLD THEN -1
    ELSE LET targetTime == TargetTime[tz]
         IN  IF targetTime <= now THEN (now - targetTime) \div SECONDS_PER_HOUR
             ELSE (targetTime - now) \div SECONDS_PER_HOUR

\* main.cpp:68-85; now is the value of time(nullptr), tz whether TZ is set
computeHoursRemaining(now, tz) ==
    IF now < SYNC_THRESHOLD THEN -1
    ELSE LET targetTime == TargetTime[tz]
         IN  IF targetTime <= now THEN 0
             ELSE LET seconds == targetTime - now
                  IN  seconds \div SECONDS_PER_HOUR

-----------------------------------------------------------------------------
(* The program state as one record, so that the functions of main.cpp are  *)
(* operators from state to state; ms is millis() at the point of the call. *)

Line(kind, H, D, R, hours) == [kind |-> kind, H |-> H, D |-> D, R |-> R, hours |-> hours]
Info(kind) == Line(kind, 0, 0, 0, 0)

Dashes == [kind |-> "dashes", value |-> 0]      \* setSegments({SEG_DASH x 4})
Number(n) == [kind |-> "number", value |-> n]   \* showNumberDec(n, false)

AddTicks(m, n) == (m + n) % MillisModulus
AddMs(m, ms) == AddTicks(m, Ticks(ms))

Elapsed_NoWrap(now, last) == now - last

\* unsigned long subtraction now - last
Elapsed(now, last) == (now - last + MillisModulus) % MillisModulus

-----------------------------------------------------------------------------
(* Display formatter *)

\* main.cpp:35-40
initDisplay(s) == IF s.displayInitialized THEN s
                  ELSE [s EXCEPT !.displayInitialized = TRUE]

showValueOnDisplay_NoClamp(s, value) ==
    LET s1 == IF ~s.displayInitialized THEN initDisplay(s) ELSE s
    IN  IF value < 0 THEN [s1 EXCEPT !.shown = Dashes]
        ELSE [s1 EXCEPT !.shown = Number(value)]

\* main.cpp:42-52
showValueOnDisplay(s, value) ==
    LET s1 == IF ~s.displayInitialized THEN initDisplay(s) ELSE s
    IN  IF value < 0 THEN [s1 EXCEPT !.shown = Dashes]
        ELSE LET v == IF value > DISPLAY_MAX THEN DISPLAY_MAX ELSE value
             IN  [s1 EXCEPT !.shown = Number(v)]

\* long division of C, which truncates toward zero
CDiv(a, b) == IF a >= 0 THEN a \div b ELSE -((-a) \div b)

updateDisplay_NoOffset(s, hoursRemaining) ==
    LET s0 == [s EXCEPT !.shownFor = [hours |-> hoursRemaining, mode |-> s.displayMode]]
    IN  IF hoursRemaining < 0 THEN showValueOnDisplay(s0, -1)
        ELSE LET days == CDiv(hoursRemaining, HOURS_PER_DAY)
             IN  IF s0.displayMode = MODE_HOURS
                 THEN showValueOnDisplay(s0, hoursRemaining)
                 ELSE showValueOnDisplay(s0, days)

updateDisplay_NoUnsyncedCheck(s, hoursRemaining) ==
    LET s0 == [s EXCEPT !.shownFor = [hours |-> hoursRemaining, mode |-> s.displayMode]]
        days == CDiv(hoursRemaining, HOURS_PER_DAY)
    IN  IF s0.displayMode = MODE_HOURS
        THEN showValueOnDisplay(s0, hoursRemaining - 1)
        ELSE showValueOnDisplay(s0, days)

\* main.cpp:54-65
updateDisplay(s, hoursRemaining) ==
    LET s0 == [s EXCEPT !.shownFor = [hours |-> hoursRemaining, mode |-> s.displayMode]]
    IN  IF hoursRemaining < 0 THEN showValueOnDisplay(s0, -1)
        ELSE LET days == CDiv(hoursRemaining, HOURS_PER_DAY)
             IN  IF s0.displayMode = MODE_HOURS
                 THEN showValueOnDisplay(s0, hoursRemaining - 1)
                 ELSE showValueOnDisplay(s0, days)

-----------------------------------------------------------------------------
(* Reporter *)

\* a call of computeHoursRemaining at clock reading now, recorded in calls
Compute(s, now) ==
    LET hours == computeHoursRemaining(now, s.tzInstalled)
    IN  [s EXCEPT !.calls = Append(@, [now |-> now, tz |-> s.tzInstalled, hours |-> hours])]

LastHours(s) == s.calls[Len(s.calls)].hours

reportIfNeeded_AlwaysLogsWaiting(s, now, force) ==
    LET s1 == Compute(s, now)
        hours == LastHours(s1)
    IN  IF hours < 0
        THEN updateDisplay([s1 EXCEPT !.out = Append(@, Info("WAITING"))], -1)
        ELSE IF force \/ hours # s1.lastReportedHours
             THEN LET days == CDiv(hours, HOURS_PER_DAY)
                      remHours == hours - HOURS_PER_DAY * days
                  IN  updateDisplay(
                        [s1 EXCEPT !.out = Append(@, Line("RESULT", hours - 1, days, remHours, hours)),
                                   !.lastReportedHours = hours],
                        hours)
             ELSE s1

reportIfNeeded_AlwaysReports(s, now, force) ==
    LET s1 == Compute(s, now)
        hours == LastHours(s1)
    IN  IF hours < 0
        THEN updateDisplay(
               [s1 EXCEPT !.out = IF force THEN Append(@, Info("WAITING")) ELSE @],
               -1)
        ELSE LET days == CDiv(hours, HOURS_PER_DAY)
                 remHours == hours - HOURS_PER_DAY * days
             IN  updateDisplay(
                   [s1 EXCEPT !.out = Append(@, Line("RESULT", hours - 1, days, remHours, hours)),
                              !.lastReportedHours = hours],
                   hours)

reportIfNeeded_RecordsUnsynced(s, now, force) ==
    LET s1 == Compute(s, now)
        hours == LastHours(s1)
    IN  IF hours < 0
        THEN updateDisplay(
               [s1 EXCEPT !.out = IF force THEN Append(@, Info("WAITING")) ELSE @,
                          !.lastReportedHours = hours],
               -1)
        ELSE IF force \/ hours # s1.lastReportedHours
             THEN LET days == CDiv(hours, HOURS_PER_DAY)
                      remHours == hours - HOURS_PER_DAY * days
                  IN  updateDisplay(
                        [s1 EXCEPT !.out = Append(@, Line("RESULT", hours - 1, days, remHours, hours)),
                                   !.lastReportedHours = hours],
                        hours)
             ELSE s1

\* main.cpp:87-102
reportIfNeeded(s, now, force) ==
    LET s1 == Compute(s, now)
        hours == LastHours(s1)
    IN  IF hours < 0
        THEN updateDisplay(
               [s1 EXCEPT !.out = IF force THEN Append(@, Info("WAITING")) ELSE @],
               -1)
        ELSE IF force \/ hours # s1.lastReportedHours
             THEN LET days == CDiv(hours, HOURS_PER_DAY)
                      remHours == hours - HOURS_PER_DAY * days    \* hours % 24
                  IN  updateDisplay(
                        [s1 EXCEPT !.out = Append(@, Line("RESULT", hours - 1, days, remHours, hours)),
                                   !.lastReportedHours = hours],
                        hours)
             ELSE s1

-----------------------------------------------------------------------------
(* Network and time-sync maintenance *)

\* main.cpp:110-113: the number of 500 ms polls of the wait loop when the
\* link comes up after upAfter polls
RECURSIVE WaitPolls(_, _)
WaitPolls(n, upAfter) ==
    IF n < upAfter /\ n * Ticks(WIFI_POLL_MS) < Ticks(WIFI_TIMEOUT_MS)
    THEN WaitPolls(n + 1, upAfter)
    ELSE n

connectWiFi_SyncsOnFailure(s, upAfter) ==
    IF s.wifi THEN s
    ELSE LET polls == WaitPolls(0, upAfter)
             t     == AddMs(s.ms, polls * WIFI_POLL_MS)
             s1    == [s EXCEPT !.out = Append(@, Info("WIFI_CONNECTING")), !.ms = t,
                                !.tzInstalled = TRUE,
                                !.syncRequested = TRUE,
                                !.lastNtpSync = t]
         IN  IF polls >= upAfter
             THEN [s1 EXCEPT !.wifi = TRUE,
                             !.out = Append(@, Info("WIFI_CONNECTED"))]
             ELSE [s1 EXCEPT !.out = Append(@, Info("WIFI_FAILED"))]

\* main.cpp:104-127; s.wifi is WiFi.status() at entry
connectWiFi(s, upAfter) ==
    IF s.wifi THEN s
    ELSE LET polls == WaitPolls(0, upAfter)
             t     == AddMs(s.ms, polls * WIFI_POLL_MS)
             s1    == [s EXCEPT !.out = Append(@, Info("WIFI_CONNECTING")), !.ms = t]
         IN  IF polls >= upAfter
             THEN [s1 EXCEPT !.wifi = TRUE,
                             !.out = Append(@, Info("WIFI_CONNECTED")),
                             !.tzInstalled = TRUE,
                             !.syncRequested = TRUE,
                             !.lastNtpSync = t]
             ELSE [s1 EXCEPT !.out = Append(@, Info("WIFI_FAILED"))]

ensureTimeResync_Inclusive(s, now) ==
    LET timeValid == now >= SYNC_THRESHOLD
    IN  IF s.wifi
        THEN IF ~timeValid /\ Elapsed(s.ms, s.lastNtpSync) >= Ticks(NTP_RETRY_MS)
             THEN [s EXCEPT !.out = Append(@, Info("NTP_RETRY")),
                            !.syncRequested = TRUE,
                            !.lastNtpSync = s.ms]
             ELSE IF Elapsed(s.ms, s.lastNtpSync) >= Ticks(NTP_RESYNC_INTERVAL_MS)
                  THEN [s EXCEPT !.out = Append(@, Info("NTP_PERIODIC")),
                                 !.syncRequested = TRUE,
                                 !.lastNtpSync = s.ms]
                  ELSE s
        ELSE s

ensureTimeResync_NoRetry(s, now) ==
    IF s.wifi /\ Elapsed(s.ms, s.lastNtpSync) > Ticks(NTP_RESYNC_INTERVAL_MS)
    THEN [s EXCEPT !.out = Append(@, Info("NTP_PERIODIC")),
                   !.syncRequested = TRUE,
                   !.lastNtpSync = s.ms]
    ELSE s

\* main.cpp:129-144; now is time(nullptr)
ensureTimeResync(s, now) ==
    LET timeValid == now >= SYNC_THRESHOLD
    IN  IF s.wifi
        THEN IF ~timeValid /\ Elapsed(s.ms, s.lastNtpSync) > Ticks(NTP_RETRY_MS)
             THEN [s EXCEPT !.out = Append(@, Info("NTP_RETRY")),
                            !.syncRequested = TRUE,
                            !.lastNtpSync = s.ms]
             ELSE IF Elapsed(s.ms, s.lastNtpSync) > Ticks(NTP_RESYNC_INTERVAL_MS)
                  THEN [s EXCEPT !.out = Append(@, Info("NTP_PERIODIC")),
                                 !.syncRequested = TRUE,
                                 !.lastNtpSync = s.ms]
                  ELSE s
        ELSE s

-----------------------------------------------------------------------------
(* Inputs of the environment *)

\* the link comes up after this many polls of connectWiFi's wait loop
\* (10: after 5 s; 41: not within the 20 s of the wait)
UpAfterPolls == {10, 41}

\* the time from line 163 of one iteration to the start of the next one:
\* delay(1000) and whatever else runs, at least LOOP_DELAY_MS.  The model
\* samples it at 5 s, 15 s and 60 s.
LoopDelaysMs == {5 * LOOP_DELAY_MS, DISPLAY_MODE_DURATION_MS, PRINT_INTERVAL_MS}

TargetTz == TargetTime[TRUE]

\* readings of time(nullptr): seconds since boot before the first sync,
\* then 48 h before the target, and the target
ClockReadings == {0, TargetTz - 48 * SECONDS_PER_HOUR, TargetTz}

\* the clock can read a synchronized time only after a sync was requested,
\* and a synchronized clock stays synchronized
ClockStep(old, new, requested) ==
    /\ new >= SYNC_THRESHOLD => requested
    /\ old >= SYNC_THRESHOLD => new >= SYNC_THRESHOLD

\* the same, for a clock that can also be set back below the threshold
ClockStepBack(old, new, requested) == new >= SYNC_THRESHOLD => requested

-----------------------------------------------------------------------------
(* setup() and loop() *)

State == [ms |-> millis, wifi |-> wifi, syncRequested |-> syncRequested,
          tzInstalled |-> tzInstalled, lastPrint |-> lastPrint,
          lastReportedHours |-> lastReportedHours, lastNtpSync |-> lastNtpSync,
          lastModeSwitch |-> lastModeSwitch, displayMode |-> displayMode,
          displayInitialized |-> displayInitialized, shown |-> shown,
          shownFor |-> shownFor, out |-> out, calls |-> calls]

\* main.cpp:21-33: the globals at power-on
Boot == [ms |-> 0, wifi |-> FALSE, syncRequested |-> FALSE, tzInstalled |-> FALSE,
         lastPrint |-> 0, lastReportedHours |-> -1, lastNtpSync |-> 0,
         lastModeSwitch |-> 0, displayMode |-> MODE_HOURS,
         displayInitialized |-> FALSE, shown |-> [kind |-> "off", value |-> 0],
         shownFor |-> [hours |-> -1, mode |-> MODE_HOURS],
         out |-> << >>, calls |-> << >>]

\* main.cpp:146-156
setup(upAfter) ==
    LET s1 == [Boot EXCEPT !.ms = AddMs(@, BOOT_DELAY_MS),
                           !.out = Append(@, Info("BOOTING"))]
        s2 == initDisplay(s1)
        s3 == updateDisplay(s2, -1)
        s4 == connectWiFi(s3, upAfter)
    IN  [s4 EXCEPT !.lastPrint = s4.ms, !.lastModeSwitch = s4.ms]

PrintTick_Strict(s, nowMs, now) ==
    IF Elapsed(nowMs, s.lastPrint) > Ticks(PRINT_INTERVAL_MS)
    THEN [reportIfNeeded(s, now, FALSE) EXCEPT !.lastPrint = nowMs]
    ELSE s

\* main.cpp:163-167
PrintTick(s, nowMs, now) ==
    IF Elapsed(nowMs, s.lastPrint) >= Ticks(PRINT_INTERVAL_MS)
    THEN [reportIfNeeded(s, now, FALSE) EXCEPT !.lastPrint = nowMs]
    ELSE s

ModeTick_OnlyWhenSynced(s, nowMs, now) ==
    IF Elapsed(nowMs, s.lastModeSwitch) >= Ticks(DISPLAY_MODE_DURATION_MS)
    THEN LET s2 == Compute(s, now)
             s1 == [s2 EXCEPT !.displayMode = IF @ = MODE_HOURS THEN MODE_DAYS ELSE MODE_HOURS,
                              !.lastModeSwitch = nowMs]
         IN  IF LastHours(s2) < 0 THEN updateDisplay(s2, -1)
             ELSE updateDisplay(s1, LastHours(s1))
    ELSE s

ModeTick_NoRefresh(s, nowMs, now) ==
    IF Elapsed(nowMs, s.lastModeSwitch) >= Ticks(DISPLAY_MODE_DURATION_MS)
    THEN [s EXCEPT !.displayMode = IF @ = MODE_HOURS THEN MODE_DAYS ELSE MODE_HOURS,
                   !.lastModeSwitch = nowMs]
    ELSE s

\* main.cpp:168-175
ModeTick(s, nowMs, now) ==
    IF Elapsed(nowMs, s.lastModeSwitch) >= Ticks(DISPLAY_MODE_DURATION_MS)
    THEN LET s1 == [s EXCEPT !.displayMode = IF @ = MODE_HOURS THEN MODE_DAYS ELSE MODE_HOURS,
                             !.lastModeSwitch = nowMs]
             s2 == Compute(s1, now)
         IN  updateDisplay(s2, LastHours(s2))
    ELSE s

ForcedReport_Never(s, now) == s

\* main.cpp:176-179
ForcedReport(s, now) ==
    IF s.lastReportedHours < 0 THEN reportIfNeeded(s, now, TRUE) ELSE s

\* main.cpp:159-161
Reconnect(s, upAfter) == IF ~s.wifi THEN connectWiFi(s, upAfter) ELSE s

\* the reading of time(nullptr) by the i-th read of an iteration, when the
\* clock changes from old to new after the k-th read
Read(i, k, old, new) == IF i > k THEN new ELSE old

\* the globals that the blocks of loop() write, and the number of lines
\* written so far, at one point of a step
Snap(s) == [lastPrint |-> s.lastPrint, lastReportedHours |-> s.lastReportedHours,
            lastNtpSync |-> s.lastNtpSync, displayMode |-> s.displayMode,
            syncRequested |-> s.syncRequested, lines |-> Len(s.out)]

\* a step that is not an iteration of loop()
NoIteration(s) == [kind |-> "none", linkUp |-> s.wifi, valid |-> FALSE, nowMs |-> s.ms,
                   entry |-> Snap(s), connect |-> Snap(s), print |-> Snap(s),
                   mode |-> Snap(s)]

\* an iteration of loop(): WiFi.status() at line 159, whether time(nullptr)
\* was valid at line 131, millis() at line 163, and the globals at entry,
\* after lines 159-161 (connect), after lines 163-167 (print) and after
\* lines 168-175 (mode)
Iteration(linkUp, valid, s0, s1, s3, s4) ==
    [kind |-> "loop", linkUp |-> linkUp, valid |-> valid, nowMs |-> s1.ms,
     entry |-> Snap(s0), connect |-> Snap(s1), print |-> Snap(s3), mode |-> Snap(s4)]

\* the true times of a state that no wrap and no long pause has led to
RealOf(s) == [now |-> s.ms, at |-> s.ms, slept |-> 0, lastPrint |-> s.lastPrint,
              lastModeSwitch |-> s.lastModeSwitch, lastNtpSync |-> s.lastNtpSync]

Install(s, c, w, i, r) ==
    /\ waitRun' = w
    /\ it' = i
    /\ real' = r
    /\ millis' = s.ms
    /\ clock' = c
    /\ wifi' = s.wifi
    /\ syncRequested' = s.syncRequested
    /\ tzInstalled' = s.tzInstalled
    /\ lastPrint' = s.lastPrint
    /\ lastReportedHours' = s.lastReportedHours
    /\ lastNtpSync' = s.lastNtpSync
    /\ lastModeSwitch' = s.lastModeSwitch
    /\ displayMode' = s.displayMode
    /\ displayInitialized' = s.displayInitialized
    /\ shown' = s.shown
    /\ shownFor' = s.shownFor
    /\ out' = s.out
    /\ calls' = s.calls

Init ==
    \E upAfter \in UpAfterPolls :
        \E s \in {setup(upAfter)} :
            /\ millis = s.ms
            /\ clock = 0
            /\ wifi = s.wifi
            /\ syncRequested = s.syncRequested
            /\ tzInstalled = s.tzInstalled
            /\ lastPrint = s.lastPrint
            /\ lastReportedHours = s.lastReportedHours
            /\ lastNtpSync = s.lastNtpSync
            /\ lastModeSwitch = s.lastModeSwitch
            /\ displayMode = s.displayMode
            /\ displayInitialized = s.displayInitialized
            /\ shown = s.shown
            /\ shownFor = s.shownFor
            /\ out = s.out
            /\ calls = s.calls
            /\ waitRun = 0
            /\ it = NoIteration(s)
            /\ real = RealOf(s)

Min(a, b) == IF a <= b THEN a ELSE b

HasLine(lines, kind) == \E i \in DOMAIN lines : lines[i].kind = kind

\* the number of "waiting for time sync" lines in a sequence of lines
Waiting(lines) == Cardinality({i \in DOMAIN lines : lines[i].kind = "WAITING"})

\* the true times after an iteration that started at true time at (line
\* 163) and paused for delay ticks; long says whether the pause is a long one
RealAfter(at, delay, long, s1, s2, s3, s4) ==
    [now |-> at + delay, at |-> at,
     slept |-> real.slept + (IF long THEN delay ELSE 0),
     lastPrint |-> IF s3.lastPrint # s2.lastPrint THEN at ELSE real.lastPrint,
     lastModeSwitch |-> IF s4.lastModeSwitch # s3.lastModeSwitch THEN at
                        ELSE real.lastModeSwitch,
     lastNtpSync |-> IF HasLine(s1.out, "WIFI_CONNECTED") \/ Len(s2.out) > Len(s1.out)
                     THEN at ELSE real.lastNtpSync]

\* main.cpp:158-181: one iteration.  linkUp is WiFi.status() at line 159,
\* upAfter the progress of a connection attempt, (k, new) the change of the
\* clock during the iteration and delay the time (in ticks) that the
\* iteration's delay takes.  readings are the readings the clock can change
\* to, delays the short delays, pauses the long ones, back says whether the
\* clock can be set back; the time the loop has been running without the
\* long pauses is explored up to uptime seconds.
LoopWith(readings, delays, pauses, back, uptime) ==
    \E linkUp \in BOOLEAN, upAfter \in UpAfterPolls :
        /\ (linkUp => upAfter = 10)
        /\ \E s0 \in {[State EXCEPT !.wifi = linkUp, !.out = << >>, !.calls = << >>]} :
           \E s1 \in {Reconnect(s0, upAfter)} :
           \E at \in {real.now + Elapsed(s1.ms, s0.ms)} :
           /\ at - real.slept <= Ticks(uptime * 1000)
           /\ \E k \in 0..4, new \in readings :
                /\ (new = clock => k = 0)
                /\ \E s2 \in {ensureTimeResync(s1, Read(1, k, clock, new))} :
                    /\ IF back
                       THEN ClockStepBack(clock, new, IF k = 0 THEN s1.syncRequested
                                                               ELSE s2.syncRequested)
                       ELSE ClockStep(clock, new, IF k = 0 THEN s1.syncRequested
                                                           ELSE s2.syncRequested)
                    /\ \E s3 \in {PrintTick(s2, s2.ms, Read(2, k, clock, new))} :
                       \E s4 \in {ModeTick(s3, s2.ms, Read(3, k, clock, new))} :
                       \E s5 \in {ForcedReport(s4, Read(4, k, clock, new))} :
                       \E delay \in delays \cup pauses :
                           Install([s5 EXCEPT !.ms = AddTicks(@, delay)], new,
                                   IF \A i \in 1..4 : Read(i, k, clock, new) < SYNC_THRESHOLD
                                   THEN Min(waitRun + Waiting(s5.out), MaxWaitRun)
                                   ELSE 0,
                                   Iteration(linkUp, Read(1, k, clock, new) >= SYNC_THRESHOLD,
                                             s0, s1, s3, s4),
                                   RealAfter(at, delay, delay \in pauses, s1, s2, s3, s4))

LoopDelays == {Ticks(d) : d \in LoopDelaysMs}

Loop == LoopWith(ClockReadings, LoopDelays, {}, FALSE, MaxUptimeSec)

Next == Loop

Spec == Init /\ [][Next]_vars

-----------------------------------------------------------------------------
(* The loop over a long time: between two iterations the loop may also    *)
(* have been running for 6 hours, and for so long that the millisecond    *)
(* counter is about to wrap; and the clock can be set back.               *)

PauseResync == Ticks(NTP_RESYNC_INTERVAL_MS)
PauseWrap == MillisModulus - Ticks(2 * DISPLAY_MODE_DURATION_MS)

\* each long pause is taken at most once
Pauses == {p \in {PauseResync, PauseWrap} :
             real.slept \notin {p, PauseResync + PauseWrap}}

LongDelays == {Ticks(DISPLAY_MODE_DURATION_MS)}

LongReadings == {0, TargetTz - 48 * SECONDS_PER_HOUR}

LoopLong == LoopWith(LongReadings, LongDelays, Pauses, TRUE, MaxUptimeSec)

SpecLong == Init /\ [][LoopLong]_vars

-----------------------------------------------------------------------------
(* The loop that keeps iterating in an environment that recovers: after    *)
(* LiveHorizonSec of uptime the link is up at the end of every iteration   *)
(* (it stays up, or the connection attempt succeeds) and a requested time  *)
(* sync has made the clock valid by the end of the iteration.  Before      *)
(* that, connection attempts and syncs fail as they like.                  *)

Recovers ==
    real.now > Ticks(LiveHorizonSec * 1000) =>
        /\ wifi'
        /\ syncRequested' => clock' >= SYNC_THRESHOLD

LiveDelays == {Ticks(5 * LOOP_DELAY_MS), Ticks(DISPLAY_MODE_DURATION_MS)}

LoopLive ==
    /\ LoopWith(LongReadings, LiveDelays, {}, FALSE, LiveHorizonSec + LiveGraceSec)
    /\ Recovers

SpecLive == Init /\ [][LoopLive]_vars /\ WF_vars(LoopLive)

-----------------------------------------------------------------------------
(* The calculator and the formatter on their own: a reading of the clock   *)
(* and a display mode are drawn, computeHoursRemaining and updateDisplay   *)
(* are applied; calls keeps the previous call and this one.                *)

\* hours before the target at which a day ends, and at which the display's
\* four digits overflow in the Hours and in the Days view
BoundaryHours == {23, 24, 25, 47, 48, 49,
                  DISPLAY_MAX, DISPLAY_MAX + 1, DISPLAY_MAX + 2,
                  HOURS_PER_DAY * DISPLAY_MAX + 23, HOURS_PER_DAY * (DISPLAY_MAX + 1)}

PureReadings ==
    {0, SYNC_THRESHOLD - 1, SYNC_THRESHOLD, SYNC_THRESHOLD + 1}
    \cup {TargetTz - h * SECONDS_PER_HOUR - sec :
            h \in -1..MaxHoursAhead, sec \in {0, 1, SECONDS_PER_HOUR - 1}}
    \cup {TargetTz - h * SECONDS_PER_HOUR : h \in BoundaryHours}

PureInit ==
    \E tz \in BOOLEAN :
    \E s \in {updateDisplay(initDisplay([Boot EXCEPT !.tzInstalled = tz]), -1)} :
        /\ millis = s.ms
        /\ clock = 0
        /\ wifi = s.wifi
        /\ syncRequested = s.syncRequested
        /\ tzInstalled = s.tzInstalled
        /\ lastPrint = s.lastPrint
        /\ lastReportedHours = s.lastReportedHours
        /\ lastNtpSync = s.lastNtpSync
        /\ lastModeSwitch = s.lastModeSwitch
        /\ displayMode = s.displayMode
        /\ displayInitialized = s.displayInitialized
        /\ shown = s.shown
        /\ shownFor = s.shownFor
        /\ out = s.out
        /\ calls = s.calls
        /\ waitRun = 0
        /\ it = NoIteration(s)
        /\ real = RealOf(s)

PureStep ==
    \E now \in PureReadings, mode \in {MODE_HOURS, MODE_DAYS} :
    \E s1 \in {Compute([State EXCEPT !.displayMode = mode,
                                     !.calls = IF @ = << >> THEN @ ELSE << @[Len(@)] >>],
                       now)} :
    \E s2 \in {updateDisplay(s1, LastHours(s1))} :
        Install(s2, now, 0, NoIteration(s2), RealOf(s2))

SpecPure == PureInit /\ [][PureStep]_vars

-----------------------------------------------------------------------------
(* Properties *)

Synced(c) == c.now >= SYNC_THRESHOLD
DisplayMin(a) == IF a > DISPLAY_MAX THEN DISPLAY_MAX ELSE a
ResultLines == {i \in DOMAIN out : out[i].kind = "RESULT"}

\* C1: for every synchronized reading now >= target, computeHoursRemaining
\* returns exactly 0, never a negative value (now = target and now = target + 1
\* included).
C1_ZeroAtAndAfterTarget ==
    \A i \in DOMAIN calls :
        (Synced(calls[i]) /\ calls[i].now >= TargetTime[calls[i].tz])
            => calls[i].hours = 0

C1_Witness ==
    /\ Len(calls) = 2
    /\ calls[1].now = TargetTime[tzInstalled] /\ calls[1].hours = 0
    /\ calls[2].now = TargetTime[tzInstalled] + 1 /\ calls[2].hours = 0

\* C2: for every synchronized reading now < target, the result h is the floor
\* of (target - now) / 3600: 3600 * h <= target - now < 3600 * (h + 1); a
\* difference of 172800 s gives 48 and a difference of 1..3599 s gives 0.
C2_FloorOfHoursBeforeTarget ==
    \A i \in DOMAIN calls :
        LET diff == TargetTime[calls[i].tz] - calls[i].now
            h    == calls[i].hours
        IN  (Synced(calls[i]) /\ diff > 0)
                => /\ SECONDS_PER_HOUR * h <= diff
                   /\ diff < SECONDS_PER_HOUR * (h + 1)
                   /\ (diff = 172800 => h = 48)
                   /\ (diff \in 1..3599 => h = 0)

C2_Witness ==
    /\ Len(calls) = 2
    /\ tzInstalled
    /\ calls[1].now = 1775966400 - 172800 /\ calls[1].hours = 48
    /\ calls[2].now = 1775966400 - 3599 /\ calls[2].hours = 0

\* C3: computeHoursRemaining returns -1 (Unsynced) exactly when the reading is
\* below the threshold 100000, whatever the target; at or above the threshold
\* the result is >= 0.
C3_UnsyncedIffBelowThreshold ==
    \A i \in DOMAIN calls :
        /\ (calls[i].hours = -1) <=> (calls[i].now < 100000)
        /\ calls[i].now >= 100000 => calls[i].hours >= 0

C3_Witness ==
    /\ Len(calls) = 2
    /\ calls[1].now = 99999 /\ calls[1].hours = -1
    /\ calls[2].now = 100000 /\ calls[2].hours >= 0

\* C4: for a fixed target and two synchronized readings now1 <= now2,
\* compute(now1) >= compute(now2) >= 0, before and after the target.
C4_NonIncreasing ==
    (/\ Len(calls) = 2
     /\ calls[1].tz = calls[2].tz
     /\ Synced(calls[1]) /\ Synced(calls[2])
     /\ calls[1].now <= calls[2].now)
        => (calls[1].hours >= calls[2].hours /\ calls[2].hours >= 0)

C4_Witness ==
    /\ Len(calls) = 2
    /\ calls[1].now < TargetTime[tzInstalled] /\ calls[1].hours > 0
    /\ calls[2].now > TargetTime[tzInstalled] /\ calls[2].hours = 0

\* C5: whenever computeHoursRemaining returns a non-negative value, the time
\* zone rule has already been installed (setenv/tzset executed), on every path
\* by which the clock can become valid.
C5_TimeZoneInstalledBeforeHours ==
    \A i \in DOMAIN calls : calls[i].hours >= 0 => calls[i].tz

\* C6: in Days mode with a synchronized value h >= 0 the display is given the
\* number min(floor(h / 24), 9999), which lies in 0..9999; never the dashes.
C6_DaysView ==
    (shownFor.hours >= 0 /\ shownFor.mode = MODE_DAYS)
        => /\ shown.kind = "number"
           /\ shown.value = DisplayMin(shownFor.hours \div 24)
           /\ shown.value \in 0..9999

C6_Witness ==
    /\ shownFor.mode = MODE_DAYS
    /\ shownFor.hours = 24 * 10000
    /\ shown = [kind |-> "number", value |-> 9999]

\* C7: in Hours mode with a synchronized value h >= 0 the display is given
\* min(h - 1, 9999) when h >= 1 and the dashes when h = 0; at h = 0 the Days
\* view shows 0.
C7_HoursView ==
    /\ (shownFor.hours >= 1 /\ shownFor.mode = MODE_HOURS)
          => (shown.kind = "number" /\ shown.value = DisplayMin(shownFor.hours - 1))
    /\ (shownFor.hours = 0 /\ shownFor.mode = MODE_HOURS) => shown.kind = "dashes"
    /\ (shownFor.hours = 0 /\ shownFor.mode = MODE_DAYS)
          => (shown.kind = "number" /\ shown.value = 0)

C7_Witness ==
    /\ shownFor.hours = 0 /\ shownFor.mode = MODE_HOURS /\ shown.kind = "dashes"
    /\ Len(calls) = 2 /\ calls[1].hours = 10001

\* C8: for the Unsynced value the display shows the dashes in both modes and
\* is given no number.
C8_UnsyncedShowsDashes ==
    shownFor.hours < 0 => shown.kind = "dashes"

C8_Witness ==
    /\ shownFor.hours < 0 /\ shownFor.mode = MODE_DAYS /\ shown.kind = "dashes"
    /\ calls # << >>

\* C9 as stated: over a run of consecutive loop iterations in which the clock
\* stays invalid, at most one "waiting for time sync" line is logged.
C9_WaitingLoggedOncePerRun == waitRun <= 1

\* C9, amended: the "waiting for time sync" line is logged once per loop
\* iteration, not once per run: an iteration that ends with
\* lastReportedHours < 0 logs exactly one such line, any other iteration and
\* setup log none.
C9_WaitingLoggedOncePerIteration ==
    Waiting(out) = IF lastReportedHours < 0 /\ calls # << >> THEN 1 ELSE 0

C9_Witness ==
    /\ waitRun = MaxWaitRun
    /\ Waiting(out) = 1
    /\ Len(calls) = 2

\* C10: every status line carries hours H, days D and remainder R such that H
\* is the computed remaining-hours value (so H >= 0), H = 24 * D + R and
\* 0 <= R <= 23.
C10_StatusLineConsistent ==
    \A i \in ResultLines :
        /\ out[i].H = out[i].hours
        /\ out[i].H >= 0
        /\ out[i].H = 24 * out[i].D + out[i].R
        /\ out[i].R \in 0..23

\* what updateDisplay(h) puts on the display in mode m
Rendering(h, m) ==
    IF h < 0 THEN Dashes
    ELSE IF m = MODE_HOURS
         THEN (IF h = 0 THEN Dashes ELSE Number(DisplayMin(h - 1)))
         ELSE Number(DisplayMin(h \div HOURS_PER_DAY))

\* the forced report of lines 177-178 ran in the last step: it always writes
\* a line, after the mode-switch block
ForcedRan == it.kind = "loop" /\ Len(out) > it.mode.lines

\* C11: a status line is emitted only when the report is forced or the
\* computed hours differ from lastReportedHours, and lastReportedHours becomes
\* the emitted hours (and changes in no other way); so two consecutive status
\* lines are based on different values, and an iteration emits at most one.
C11_OneLinePerChange ==
    [][it'.kind = "loop" =>
        /\ Cardinality(ResultLines') <= 1
        /\ \A i \in ResultLines' :
              /\ out'[i].hours # lastReportedHours
              /\ lastReportedHours' = out'[i].hours
              /\ (ForcedRan' \/ it'.print.lastReportedHours = out'[i].hours)
        /\ ResultLines' = {} => lastReportedHours' = lastReportedHours]_vars

C11_Witness ==
    /\ it.kind = "loop"
    /\ it.entry.lastReportedHours >= 0
    /\ \E i \in ResultLines : /\ out[i].hours # it.entry.lastReportedHours
                              /\ out[i].hours = lastReportedHours

\* C12: every iteration that begins with the link down makes a connection
\* attempt; an attempt that times out (20 s) logs an error, requests no time
\* sync, leaves lastNtpSync, lastReportedHours and displayMode unchanged, and
\* the iteration goes on to its end.
C12_RetryEveryIteration ==
    [][it'.kind = "loop" =>
        /\ ~it'.linkUp <=> HasLine(out', "WIFI_CONNECTING")
        /\ (~it'.linkUp /\ ~wifi') =>
              /\ HasLine(out', "WIFI_FAILED")
              /\ it'.nowMs = AddMs(millis, WIFI_TIMEOUT_MS)
              /\ ~HasLine(out', "NTP_RETRY") /\ ~HasLine(out', "NTP_PERIODIC")
              /\ it'.connect.syncRequested = syncRequested
              /\ it'.connect.lastNtpSync = lastNtpSync
              /\ it'.connect.lastReportedHours = lastReportedHours
              /\ it'.connect.displayMode = displayMode
              /\ syncRequested' = syncRequested
              /\ lastNtpSync' = lastNtpSync
              /\ Elapsed(millis', it'.nowMs) >= Ticks(LOOP_DELAY_MS)]_vars

C12_Witness ==
    /\ it.kind = "loop"
    /\ ~it.linkUp /\ ~wifi
    /\ HasLine(out, "WIFI_FAILED")
    /\ lastNtpSync = 0 /\ ~syncRequested
    /\ it.nowMs = Ticks(BOOT_DELAY_MS + 2 * WIFI_TIMEOUT_MS)

\* C14: in every iteration displayMode flips exactly when at least 15000 ms
\* have elapsed since lastModeSwitch, whatever the clock and the hours are;
\* it flips once, and lastModeSwitch becomes the time of the flip.
C14_ModeTogglesOnTimer ==
    [][it'.kind = "loop" =>
        /\ displayMode' # displayMode
              <=> Elapsed(it'.nowMs, lastModeSwitch) >= Ticks(15000)
        /\ displayMode' # displayMode =>
              /\ {displayMode, displayMode'} = {MODE_HOURS, MODE_DAYS}
              /\ lastModeSwitch' = it'.nowMs
        /\ displayMode' = displayMode => lastModeSwitch' = lastModeSwitch]_vars

C14_Witness ==
    /\ it.kind = "loop"
    /\ displayMode # it.entry.displayMode
    /\ lastModeSwitch = it.nowMs
    /\ clock < SYNC_THRESHOLD
    /\ lastReportedHours < 0

\* C15: a mode switch writes no line and leaves lastReportedHours and
\* lastPrint alone; it refreshes the display with the freshly computed hours
\* in the new mode; after any iteration the display was rendered in the
\* current displayMode.
C15_ModeSwitchOnlyRefreshes ==
    [][it'.kind = "loop" =>
        /\ displayMode' # displayMode =>
              /\ it'.mode.lines = it'.print.lines
              /\ it'.mode.lastReportedHours = it'.print.lastReportedHours
              /\ it'.mode.lastPrint = it'.print.lastPrint
              /\ ~ForcedRan' =>
                    /\ calls' # << >>
                    /\ shownFor' = [hours |-> calls'[Len(calls')].hours,
                                    mode |-> displayMode']
                    /\ shown' = Rendering(shownFor'.hours, displayMode')
        /\ shownFor'.mode = displayMode' \/ shown' = Dashes]_vars

C15_Witness ==
    /\ it.kind = "loop"
    /\ it.entry.displayMode = MODE_HOURS /\ displayMode = MODE_DAYS
    /\ it.entry.lastReportedHours = 48 /\ lastReportedHours = 48
    /\ out = << >>
    /\ lastPrint = it.entry.lastPrint
    /\ shown = [kind |-> "number", value |-> 2]

\* C16 as stated: while lastReportedHours < 0 every loop iteration performs a
\* forced report, whatever the print timer does.
C16_ForcedEveryWaitingIteration ==
    [][(it'.kind = "loop" /\ lastReportedHours < 0) => ForcedRan']_vars

\* C16, amended: an iteration performs the forced report exactly when
\* lastReportedHours is still < 0 at line 177; an iteration that starts with
\* lastReportedHours < 0 and makes no forced report is one whose print tick
\* has just emitted the first status line.  Either way the iteration whose
\* last reading of the clock is valid emits the status line and refreshes the
\* display; a forced report with an invalid clock logs the waiting line,
\* leaves lastReportedHours unchanged and shows the dashes.
C16_ForcedWhileWaiting ==
    [][it'.kind = "loop" =>
        /\ ForcedRan' <=> it'.mode.lastReportedHours < 0
        /\ (lastReportedHours < 0 /\ ~ForcedRan') =>
              /\ lastPrint' = it'.nowMs
              /\ it'.print.lastReportedHours >= 0
        /\ (lastReportedHours < 0 /\ calls'[Len(calls')].hours >= 0) =>
              /\ Cardinality(ResultLines') = 1
              /\ lastReportedHours' >= 0
              /\ shownFor'.hours = calls'[Len(calls')].hours
              /\ shown' = Rendering(shownFor'.hours, displayMode')
        /\ (ForcedRan' /\ calls'[Len(calls')].hours < 0) =>
              /\ lastReportedHours' = lastReportedHours
              /\ out'[Len(out')].kind = "WAITING"
              /\ shown' = Dashes]_vars

C16_Witness ==
    /\ ForcedRan
    /\ it.mode.lastReportedHours < 0 /\ lastReportedHours >= 0
    /\ lastPrint = it.entry.lastPrint
    /\ out[Len(out)].kind = "RESULT"
    /\ shownFor.hours = lastReportedHours

\* C17: once lastReportedHours >= 0 it stays >= 0, and no forced report is
\* made any more, also when the link drops and when the clock reads below
\* the threshold again.
C17_SyncedIsAbsorbing ==
    [][lastReportedHours >= 0 => (lastReportedHours' >= 0 /\ ~ForcedRan')]_vars

C17_Witness ==
    /\ it.kind = "loop"
    /\ it.entry.lastReportedHours >= 0 /\ lastReportedHours >= 0
    /\ ~it.linkUp /\ ~wifi /\ HasLine(out, "WIFI_FAILED")
    /\ calls # << >> /\ \A i \in DOMAIN calls : calls[i].hours < 0
    /\ ~ForcedRan

\* C18: after synchronization, the iteration in which 60000 ms have elapsed
\* since lastPrint advances lastPrint and, when the computed hours differ from
\* lastReportedHours, emits the status line with the new value and refreshes
\* the display; when they are equal it logs nothing and does not refresh the
\* display; before that no status line is emitted.
C18_PrintTick ==
    [][(it'.kind = "loop" /\ lastReportedHours >= 0) =>
        IF Elapsed(it'.nowMs, lastPrint) >= Ticks(60000)
        THEN /\ lastPrint' = it'.nowMs
             /\ calls'[1].hours # lastReportedHours =>
                   /\ \E i \in ResultLines' : out'[i].hours = calls'[1].hours
                   /\ lastReportedHours' = calls'[1].hours
                   /\ displayMode' = displayMode =>
                         /\ shownFor' = [hours |-> calls'[1].hours, mode |-> displayMode]
                         /\ shown' = Rendering(calls'[1].hours, displayMode)
             /\ calls'[1].hours = lastReportedHours =>
                   /\ ResultLines' = {}
                   /\ ~HasLine(out', "WAITING")
                   /\ displayMode' = displayMode =>
                         (shown' = shown /\ shownFor' = shownFor)
        ELSE /\ lastPrint' = lastPrint
             /\ ResultLines' = {}
             /\ lastReportedHours' = lastReportedHours]_vars

C18_Witness ==
    /\ it.kind = "loop"
    /\ it.entry.lastReportedHours = 48 /\ lastReportedHours = 0
    /\ lastPrint = it.nowMs /\ lastPrint # it.entry.lastPrint
    /\ ResultLines # {}
    /\ displayMode = it.entry.displayMode
    /\ shown = Rendering(0, displayMode)

\* the time-sync request of ensureTimeResync in the last step
Requested == HasLine(out, "NTP_RETRY") \/ HasLine(out, "NTP_PERIODIC")

\* C19: with the link up (at entry, or after the connection attempt) a sync
\* is requested in an iteration exactly when the clock is invalid and more
\* than 15000 ms have elapsed since lastNtpSync, or more than 6 hours have
\* elapsed since lastNtpSync, and lastNtpSync becomes the current time; with
\* the link down nothing is requested.  So a retry comes more than 15 s and a
\* resync with a valid clock more than 6 hours after the last request.
C19_ResyncRule ==
    [][it'.kind = "loop" =>
        LET e == Elapsed(it'.nowMs, it'.connect.lastNtpSync)
        IN  /\ Requested' <=>
                  /\ it'.linkUp \/ HasLine(out', "WIFI_CONNECTED")
                  /\ \/ ~it'.valid /\ e > Ticks(15000)
                     \/ e > Ticks(6 * 60 * 60 * 1000)
            /\ HasLine(out', "NTP_RETRY") => ~it'.valid
            /\ Requested' => (lastNtpSync' = it'.nowMs /\ syncRequested')
            /\ ~Requested' =>
                  /\ lastNtpSync' = it'.connect.lastNtpSync
                  /\ syncRequested' = it'.connect.syncRequested
            /\ ~wifi' => ~Requested']_vars

C19_Witness ==
    /\ it.kind = "loop"
    /\ it.linkUp /\ it.valid
    /\ HasLine(out, "NTP_PERIODIC")
    /\ Elapsed(it.nowMs, it.connect.lastNtpSync) = PauseResync + Ticks(15000)
    /\ lastNtpSync = it.nowMs

\* the print block of lines 164-167 ran in the last step: it makes the one
\* computeHoursRemaining call that neither the mode switch nor the forced
\* report makes
PrintTickRan ==
    /\ it.kind = "loop"
    /\ Len(calls) > (IF it.mode.displayMode # it.print.displayMode THEN 1 ELSE 0)
                    + (IF ForcedRan THEN 1 ELSE 0)

\* C20: whenever the true time since a timer's last firing is below 2^32 ms,
\* the timer fires in an iteration exactly when that true time has reached
\* its threshold (>= 60000 ms for the print timer, >= 15000 ms for the mode
\* switch, > 15000 ms or > 6 h for the time sync with the link up), also
\* when the millisecond counter wrapped in between.
C20_TimersAcrossWrap ==
    [][it'.kind = "loop" =>
        /\ real'.at - real.lastPrint < MillisModulus =>
              (PrintTickRan' <=> real'.at - real.lastPrint >= Ticks(60000))
        /\ real'.at - real.lastModeSwitch < MillisModulus =>
              (displayMode' # displayMode
                  <=> real'.at - real.lastModeSwitch >= Ticks(15000))
        /\ (it'.linkUp /\ real'.at - real.lastNtpSync < MillisModulus) =>
              (Requested' <=>
                  \/ ~it'.valid /\ real'.at - real.lastNtpSync > Ticks(15000)
                  \/ real'.at - real.lastNtpSync > Ticks(6 * 60 * 60 * 1000))]_vars

C20_Witness ==
    /\ PrintTickRan
    /\ real.at >= MillisModulus
    /\ it.entry.lastPrint > it.nowMs
    /\ Elapsed(it.nowMs, it.entry.lastPrint) = Ticks(60000)
    /\ lastPrint = it.nowMs
    /\ displayMode # it.entry.displayMode
    /\ it.linkUp /\ ~Requested

\* C13: when the loop keeps iterating, the link comes up and stays up and a
\* requested sync makes the clock valid, then from every state with
\* lastReportedHours < 0 the program gets to a state with lastReportedHours
\* >= 0 in which a status line was emitted and the display shows the hours
\* computed last, in the current mode.
C13_SelfHealing ==
    (lastReportedHours < 0) ~>
        /\ lastReportedHours >= 0
        /\ ResultLines # {}
        /\ calls # << >>
        /\ calls[Len(calls)].hours >= 0
        /\ shownFor = [hours |-> calls[Len(calls)].hours, mode |-> displayMode]
        /\ shown = Rendering(shownFor.hours, displayMode)

\* the first status line after two failed connection attempts and a retried
\* time sync
C13_Witness ==
    /\ it.kind = "loop"
    /\ it.entry.lastReportedHours < 0 /\ lastReportedHours >= 0
    /\ ResultLines # {}
    /\ real.lastNtpSync > Ticks(BOOT_DELAY_MS + 2 * WIFI_TIMEOUT_MS)
    /\ shownFor.hours = lastReportedHours

====
